---- MODULE Spec2Model ----
(***************************************************************************)
(* Model of the ECPay one-time-payment flow of app/routes/ecpay.py and the *)
(* two tables of app/models.py: the Order store, the DownloadToken store,  *)
(* and the four endpoints /create, /return, /order_result, /download.      *)
(*                                                                         *)
(* Text values are sequences of one-character strings, so that strip(),    *)
(* upper() and int() are computed and not assumed.  A nullable value is    *)
(* Null (the empty tuple) or Some(v) (a one-element tuple).  Times are     *)
(* whole hours.  Columns that are written once by /create and only read    *)
(* back for rendering (app_code, item_name, resume_url, payload_json,      *)
(* product_code, created_at) are left out of the Order record.             *)
(*                                                                         *)
(* Requests are served one at a time: a handler runs as one step from the  *)
(* idle state (req = NoRequest), and Respond returns to it.  What the file *)
(* system and the database commit answer are inputs of the request.        *)
(* Spec is that system; SpecCheckout is /create under every shape of the   *)
(* trade-number prefix, with the gateway's payment notifications;          *)
(* SpecRace cuts order_result() into its reads and commits and lets two    *)
(* views of one order interleave.                                          *)
(***************************************************************************)
EXTENDS Integers, Sequences, FiniteSets, TLC

VARIABLES
    orders,   \* table "orders": a sequence of rows, row i has id = i
    tokens,   \* table "download_tokens": a set of rows
    config,   \* app.config as loaded by load_config
    now,      \* the wall clock, in hours
    req,      \* the request being answered (endpoint and raw inputs), or NoRequest
    resp,     \* the response to it
    before,   \* the tables as they were when that request arrived
    served,   \* how many requests have been handled
    shown,    \* per order id, the token of the last download link rendered
    issued,   \* the trade numbers of the redirect forms returned so far
    settled,  \* the ids of the orders a verified RtnCode = 1 notification was committed for
    views     \* per concurrent result-page view, how far it got and what it read

vars ==
    <<orders, tokens, config, now, req, resp, before, served, shown, issued, settled, views>>

(***************************************************************************)
(* Bounds of the model                                                     *)
(***************************************************************************)
MaxRequests == 4    \* requests handled in one run
MaxOrders == 2      \* rows /create may insert
MaxTokens == 2      \* token strings secrets.token_urlsafe may draw
MaxTicks == 2       \* how often the clock advances
TickHours == 12     \* hours per clock advance

(***************************************************************************)
(* Nullable values and text                                                *)
(***************************************************************************)
Null == <<>>
Some(v) == <<v>>

\* Python: (v or "") for an optional string
OrEmpty(v) == IF v = Null THEN <<>> ELSE v[1]

\* Python: (s or None)
OrNone(s) == IF s = <<>> THEN Null ELSE Some(s)

IsSpace(c) == c \in {" ", "\t"}

RECURSIVE LStrip(_)
LStrip(s) == IF s # <<>> /\ IsSpace(Head(s)) THEN LStrip(Tail(s)) ELSE s

RECURSIVE RStrip(_)
RStrip(s) ==
    IF s # <<>> /\ IsSpace(s[Len(s)]) THEN RStrip(SubSeq(s, 1, Len(s) - 1)) ELSE s

\* Python: str.strip()
Strip(s) == RStrip(LStrip(s))

UpperChar(c) ==
    CASE c = "a" -> "A" [] c = "b" -> "B" [] c = "c" -> "C"
      [] c = "d" -> "D" [] c = "e" -> "E" [] c = "f" -> "F"
      [] c = "k" -> "K" [] c = "x" -> "X" [] OTHER -> c

LowerChar(c) ==
    CASE c = "A" -> "a" [] c = "B" -> "b" [] c = "C" -> "c"
      [] c = "D" -> "d" [] c = "E" -> "e" [] c = "F" -> "f"
      [] c = "K" -> "k" [] c = "X" -> "x" [] OTHER -> c

\* Python: str.upper()
Upper(s) == [i \in DOMAIN s |-> UpperChar(s[i])]

Lower(s) == [i \in DOMAIN s |-> LowerChar(s[i])]

DigitChars == <<"0", "1", "2", "3", "4", "5", "6", "7", "8", "9">>

DigitSet == {DigitChars[i] : i \in 1..10}

DigitVals == [c \in DigitSet |-> (CHOOSE i \in 1..10 : DigitChars[i] = c) - 1]

IsDigit(c) == c \in DigitSet

DigitVal(c) == DigitVals[c]

Letters ==
    {"a", "b", "c", "d", "e", "f", "k", "x", "A", "B", "C", "D", "E", "F", "X",
     "N", "O", "T", "Z"}

\* Python: str.isalnum(), on the characters the model uses
IsAlnum(c) == IsDigit(c) \/ c \in Letters

RECURSIVE DigitsVal(_)
DigitsVal(s) ==
    IF s = <<>> THEN 0
    ELSE 10 * DigitsVal(SubSeq(s, 1, Len(s) - 1)) + DigitVal(s[Len(s)])

\* Python: int(s) accepts optional blanks, an optional sign and digits
IntBody(s) == IF s # <<>> /\ Head(s) \in {"+", "-"} THEN Tail(s) ELSE s

IsIntLiteral(s) ==
    LET b == IntBody(Strip(s))
    IN  b # <<>> /\ \A i \in DOMAIN b : IsDigit(b[i])

IntOf(s) ==
    LET t == Strip(s)
        v == DigitsVal(IntBody(t))
    IN  IF t # <<>> /\ Head(t) = "-" THEN 0 - v ELSE v

RECURSIVE Digits(_)
\* Python: str(n) for n >= 0
Digits(n) ==
    IF n < 10 THEN <<DigitChars[n + 1]>>
    ELSE Append(Digits(n \div 10), DigitChars[(n % 10) + 1])

\* Python: f"{n:02d}"
TwoDigits(n) == IF n < 10 THEN <<"0">> \o Digits(n) ELSE Digits(n)

\* Python: s[:k]
Prefix(s, k) == SubSeq(s, 1, IF Len(s) < k THEN Len(s) ELSE k)

RECURSIVE KeepAlnum(_)
\* Python: "".join([c for c in s if c.isalnum()])
KeepAlnum(s) ==
    IF s = <<>> THEN <<>>
    ELSE IF IsAlnum(Head(s)) THEN <<Head(s)>> \o KeepAlnum(Tail(s))
         ELSE KeepAlnum(Tail(s))

(***************************************************************************)
(* Configuration (config.py: load_config; ecpay.py: _cfg, _require_cfg)    *)
(***************************************************************************)
FullConfig ==
    [ECPAY_MERCHANT_ID      |-> Some(<<"m">>),
     ECPAY_SERVICE_URL      |-> Some(<<"s">>),
     ECPAY_NOTIFY_URL       |-> Some(<<"n">>),
     ECPAY_ORDER_RESULT_URL |-> Some(<<"r">>),
     ECPAY_CLIENT_BACK_URL  |-> Some(<<"b">>),
     ECPAY_SDK_PATH         |-> Some(<<"p">>),
     ECPAY_HASH_KEY         |-> Some(<<"k">>),
     ECPAY_HASH_IV          |-> Some(<<"v">>),
     APP_TRADE_NO_PREFIX    |-> Some(<<"C", "T">>),
     GENERATED_FILES_PATH   |-> Null,
     sdk_file_ok            |-> TRUE]

RequiredKeys ==
    {"ECPAY_MERCHANT_ID", "ECPAY_SERVICE_URL", "ECPAY_NOTIFY_URL",
     "ECPAY_ORDER_RESULT_URL", "ECPAY_CLIENT_BACK_URL", "ECPAY_SDK_PATH",
     "ECPAY_HASH_KEY", "ECPAY_HASH_IV"}

\* the configurations the environment may supply: the complete one, and every
\* one with a single required setting absent, or with the SDK file absent
Configs ==
    {FullConfig}
        \cup {[FullConfig EXCEPT ![k] = Null] : k \in RequiredKeys}
        \cup {[FullConfig EXCEPT !.sdk_file_ok = FALSE]}

\* _cfg(key, default): the default replaces None only
Cfg(key, default) == IF config[key] = Null THEN default ELSE config[key][1]

\* _require_cfg(key) raises RuntimeError when the value is None or empty
CfgMissing(key) == OrEmpty(config[key]) = <<>>

\* _load_ecpay_sdk and _sdk_client: TRUE when either raises
SdkClientRaises ==
    \/ CfgMissing("ECPAY_SDK_PATH")
    \/ ~config.sdk_file_ok
    \/ CfgMissing("ECPAY_MERCHANT_ID")
    \/ CfgMissing("ECPAY_HASH_KEY")
    \/ CfgMissing("ECPAY_HASH_IV")

(***************************************************************************)
(* CheckMacValue (compute_checkmac, verify_checkmac).  The vendor SDK's    *)
(* generate_check_value is a keyed digest of the parameters with           *)
(* CheckMacValue removed; it is modelled as a two-hex-digit checksum of    *)
(* the other fields, in upper case as the SDK returns it.                  *)
(***************************************************************************)
CodeChars ==
    <<" ", "0", "1", "2", "3", "4", "5", "6", "7", "8", "9",
      "a", "b", "c", "d", "e", "f", "k", "x",
      "A", "B", "C", "D", "E", "F", "X", "N", "O", "T", "Z", "+", "-", "\t">>

CharCodes ==
    [c \in {CodeChars[i] : i \in DOMAIN CodeChars} |->
        CHOOSE i \in DOMAIN CodeChars : CodeChars[i] = c]

CharCode(c) == IF c \in DOMAIN CharCodes THEN CharCodes[c] ELSE 0

RECURSIVE TextSum(_)
TextSum(s) ==
    IF s = <<>> THEN 1 ELSE (3 * TextSum(Tail(s)) + CharCode(Head(s))) % 256

FieldSum(v) == IF v = Null THEN 0 ELSE TextSum(v[1])

HexChars ==
    <<"0", "1", "2", "3", "4", "5", "6", "7", "8", "9", "A", "B", "C", "D", "E", "F">>

SignedFields == <<"MerchantTradeNo", "RtnCode", "RtnMsg", "PaymentType", "TradeNo", "SimulatePaid">>

RECURSIVE FormSum(_, _)
FormSum(form, i) ==
    IF i > Len(SignedFields) THEN 0
    ELSE (i * FieldSum(form[SignedFields[i]]) + 5 * FormSum(form, i + 1)) % 256

\* client.generate_check_value(params)
GenerateCheckValue(form) ==
    LET h == FormSum(form, 1)
    IN  <<HexChars[(h \div 16) + 1], HexChars[(h % 16) + 1]>>

\* verify_checkmac without the early return on an empty value, comparing only
\* as many characters as were sent
VerifyCheckmacEmptyPasses(form) ==
    LET sent == Strip(OrEmpty(form.CheckMacValue))
    IN  IF SdkClientRaises THEN "raise"
        ELSE IF Upper(Prefix(GenerateCheckValue(form), Len(sent))) = Upper(sent) THEN "valid"
        ELSE "invalid"

\* verify_checkmac(form): "valid" for True, "invalid" for False, "raise" when
\* compute_checkmac raises
VerifyCheckmac(form) ==
    LET sent == Strip(OrEmpty(form.CheckMacValue))
    IN  IF sent = <<>> THEN "invalid"
        ELSE IF SdkClientRaises THEN "raise"
        ELSE IF Upper(GenerateCheckValue(form)) = Upper(sent) THEN "valid"
        ELSE "invalid"

(***************************************************************************)
(* Rows                                                                    *)
(***************************************************************************)
\* Order(...) as /create builds it, with the column defaults of models.py
NewOrder(id, trade_no, amount) ==
    [id                |-> id,
     merchant_trade_no |-> trade_no,
     amount            |-> amount,
     status            |-> "created",
     checkmac_valid    |-> FALSE,
     rtn_code          |-> Null,
     rtn_msg           |-> Null,
     payment_type      |-> Null,
     ecpay_trade_no    |-> Null,
     is_simulated      |-> FALSE,
     paid_at           |-> Null,
     delivered_at      |-> Null]

\* is_paid without the test of status
IsPaidFlagOnly(o) == o.checkmac_valid

\* Order.is_paid
IsPaid(o) == o.status = "paid" /\ o.checkmac_valid

\* Order.query.filter_by(merchant_trade_no=...).first(): the row ids matching
OrdersByTradeNo(trade_no) ==
    {i \in DOMAIN orders : orders[i].merchant_trade_no = trade_no}

\* the id of the row a posted trade number names (after strip), when one does
OrderNamed(trade_no) == CHOOSE i \in OrdersByTradeNo(Strip(OrEmpty(trade_no))) : TRUE

\* a response: HTTP status, what the body says, and the value it carries (the
\* trade number of a redirect form, the token of a download link)
Response(status, body) == [status |-> status, body |-> body, data |-> Null]

\* an exception no handler catches: Flask answers 500, and the request's
\* session is discarded with whatever it had not committed
ServerError == Response(500, "Internal Server Error")

NoRequest == [kind |-> "none"]

NoResponse == Response(0, "")

NoTables == [orders |-> <<>>, tokens |-> {}, shown |-> <<>>]

\* the result-page views that may run at the same time
Viewers == {1, 2}

\* a view that has not started: pc is its position in order_result(), the
\* other fields are what it has read or computed so far
IdleView ==
    [pc |-> "idle", file_exists |-> FALSE, t |-> 0, latest |-> Null, loaded |-> Null,
     reloads |-> FALSE, stamp |-> Null, wrote |-> FALSE, token |-> Null, page |-> ""]

NoViews == [v \in Viewers |-> IdleView]

(***************************************************************************)
(* The initial state: empty tables, a configuration                        *)
(***************************************************************************)
Init ==
    /\ orders = <<>>
    /\ tokens = {}
    /\ config \in Configs
    /\ now = 0
    /\ req = NoRequest
    /\ resp = NoResponse
    /\ before = NoTables
    /\ served = 0
    /\ shown = <<>>
    /\ issued = {}
    /\ settled = {}
    /\ views = NoViews


(***************************************************************************)
(* POST /create                                                            *)
(***************************************************************************)
RandPool == {7, 42}       \* values of secrets.randbelow(100) that are drawn

AmountInputs == {Null, Some(<<" ">>), Some(<<"x">>)}

\* gen_merchant_trade_no(), with the random suffix drawn; int(time.time()) is
\* 3600 seconds per hour of the clock
GenMerchantTradeNo(rand) ==
    LET configured == Cfg("APP_TRADE_NO_PREFIX", <<"N", "O">>)
        raw == Strip(IF configured = <<>> THEN <<"N", "O">> ELSE configured)
        prefix == Prefix(KeepAlnum(raw), 4)
    IN  Prefix(prefix \o Digits(3600 * now) \o TwoDigits(rand), 20)

\* the settings create() requires before it builds the order
CreateConfigMissing ==
    \E k \in {"ECPAY_MERCHANT_ID", "ECPAY_SERVICE_URL", "ECPAY_NOTIFY_URL",
              "ECPAY_ORDER_RESULT_URL", "ECPAY_CLIENT_BACK_URL"} : CfgMissing(k)

\* request.form amount: (amount or "50").strip(), the text int() is applied to
AmountText(amount) ==
    LET given == OrEmpty(amount)
    IN  Strip(IF given = <<>> THEN <<"5", "0">> ELSE given)

\* create() returning the redirect form although the commit failed
CreateResultFormAnyway(amount, rand, commit_ok) ==
    LET text == AmountText(amount)
        trade_no == GenMerchantTradeNo(rand)
        row == NewOrder(Len(orders) + 1, trade_no,
                        IF text = <<>> THEN 50 ELSE IntOf(text))
        form == [Response(200, "redirect form") EXCEPT !.data = Some(trade_no)]
    IN  IF CreateConfigMissing THEN [orders |-> orders, resp |-> ServerError]
        ELSE IF text # <<>> /\ ~IsIntLiteral(text)
            THEN [orders |-> orders, resp |-> ServerError]
        ELSE IF ~commit_ok \/ OrdersByTradeNo(trade_no) # {}
            THEN [orders |-> orders, resp |-> IF SdkClientRaises THEN ServerError ELSE form]
        ELSE IF SdkClientRaises
            THEN [orders |-> Append(orders, row), resp |-> ServerError]
        ELSE [orders |-> Append(orders, row), resp |-> form]

\* create(): the rows and the response
CreateResult(amount, rand, commit_ok) ==
    LET text == AmountText(amount)
        trade_no == GenMerchantTradeNo(rand)
        row == NewOrder(Len(orders) + 1, trade_no,
                        IF text = <<>> THEN 50 ELSE IntOf(text))
    IN  IF CreateConfigMissing THEN [orders |-> orders, resp |-> ServerError]
        ELSE IF text # <<>> /\ ~IsIntLiteral(text)
            THEN [orders |-> orders, resp |-> ServerError]
        ELSE IF ~commit_ok \/ OrdersByTradeNo(trade_no) # {}
            THEN [orders |-> orders, resp |-> ServerError]
        ELSE IF SdkClientRaises
            THEN [orders |-> Append(orders, row), resp |-> ServerError]
        ELSE [orders |-> Append(orders, row),
              resp |-> [Response(200, "redirect form") EXCEPT !.data = Some(trade_no)]]

Idle == req = NoRequest

\* a handler runs when no other request is being answered
Accepting == Idle /\ served < MaxRequests

Snapshot == [orders |-> orders, tokens |-> tokens, shown |-> shown]

\* what db.session.commit() may answer: success or an exception where the
\* handler reaches it, and nothing to answer (written TRUE) where it does not
CommitAnswers(reached) == IF reached THEN BOOLEAN ELSE {TRUE}

Create ==
    /\ Accepting
    /\ served' = served + 1
    /\ Len(orders) < MaxOrders
    /\ \E amount \in AmountInputs, rand \in RandPool, commit_ok \in BOOLEAN :
        LET r == CreateResult(amount, rand, commit_ok)
        IN  /\ orders' = r.orders
            /\ resp' = r.resp
            /\ req' = [kind |-> "create", amount |-> amount, rand |-> rand,
                       commit_ok |-> commit_ok, at |-> now]
            /\ before' = Snapshot
            /\ shown' = IF Len(r.orders) > Len(orders) THEN Append(shown, Null) ELSE shown
            /\ issued' = IF r.resp.status = 200 THEN issued \cup {r.resp.data[1]} ELSE issued
            /\ UNCHANGED <<tokens, config, now, settled, views>>

(***************************************************************************)
(* The environment: the response goes out, the clock advances              *)
(***************************************************************************)
Respond ==
    /\ ~Idle
    /\ req' = NoRequest
    /\ resp' = NoResponse
    /\ before' = NoTables
    /\ UNCHANGED <<orders, tokens, config, now, served, shown, issued, settled, views>>

Tick ==
    /\ Idle
    /\ now < MaxTicks * TickHours
    /\ now' = now + TickHours
    /\ UNCHANGED <<orders, tokens, config, req, resp, before, served, shown, issued, settled, views>>

(***************************************************************************)
(* POST /return: the gateway's notification                                *)
(***************************************************************************)
\* the gateway fields of a notification other than the trade number and the
\* signature, as they are posted: a payment, a refusal, nothing at all, and a
\* return code that is no number
PaidFields ==
    [RtnCode |-> Some(<<" ", "1", " ">>), RtnMsg |-> Some(<<"a">>),
     PaymentType |-> Some(<<"c">>), TradeNo |-> Some(<<"e">>),
     SimulatePaid |-> Some(<<" ", "1">>)]

GatewayFields ==
    {PaidFields,
     [RtnCode |-> Some(<<"2">>), RtnMsg |-> Some(<<" ">>), PaymentType |-> Some(<<"c">>),
      TradeNo |-> Null, SimulatePaid |-> Some(<<"0">>)],
     [RtnCode |-> Null, RtnMsg |-> Null, PaymentType |-> Null,
      TradeNo |-> Null, SimulatePaid |-> Null],
     [RtnCode |-> Some(<<" ">>), RtnMsg |-> Null, PaymentType |-> Null,
      TradeNo |-> Null, SimulatePaid |-> Null],
     [RtnCode |-> Some(<<"x">>), RtnMsg |-> Null, PaymentType |-> Null,
      TradeNo |-> Null, SimulatePaid |-> Null]}

UnknownTradeNo == <<"Z", "9">>

\* the MerchantTradeNo values posted: absent, blank, unknown, and each stored
\* trade number padded with blanks
TradeNoInputs ==
    {Null, Some(<<" ">>), Some(UnknownTradeNo)}
        \cup {Some(<<" ">> \o orders[i].merchant_trade_no \o <<" ">>) : i \in DOMAIN orders}

Unsigned(trade_no, g) ==
    [MerchantTradeNo |-> trade_no, CheckMacValue |-> Null, RtnCode |-> g.RtnCode,
     RtnMsg |-> g.RtnMsg, PaymentType |-> g.PaymentType, TradeNo |-> g.TradeNo,
     SimulatePaid |-> g.SimulatePaid]

\* a digest that differs from d in its first digit
OtherDigest(d) == [d EXCEPT ![1] = IF d[1] = "0" THEN "F" ELSE "0"]

\* the gateway's signature of a form, in lower case and padded with blanks
Signed(u) ==
    [u EXCEPT !.CheckMacValue = Some(<<" ">> \o Lower(GenerateCheckValue(u)) \o <<" ">>)]

\* a form with its signature absent, empty, blank or wrong
BadlySigned(u) ==
    {[u EXCEPT !.CheckMacValue = mac] :
        mac \in {Null, Some(<<>>), Some(<<" ">>), Some(OtherDigest(GenerateCheckValue(u)))}}

\* the notifications posted: every trade number with every set of gateway
\* fields, correctly signed; and a payment notification for every trade number,
\* badly signed
ReturnForms ==
    {Signed(Unsigned(trade_no, g)) : trade_no \in TradeNoInputs, g \in GatewayFields}
        \cup UNION {BadlySigned(Unsigned(trade_no, PaidFields)) : trade_no \in TradeNoInputs}

\* (form.get("RtnCode") or "0").strip(): the text int() is applied to; empty
\* text is read as 0 without int()
RtnCodeText(form) ==
    LET given == OrEmpty(form.RtnCode)
    IN  Strip(IF given = <<>> THEN <<"0">> ELSE given)

RtnCodeRaises(form) == RtnCodeText(form) # <<>> /\ ~IsIntLiteral(RtnCodeText(form))

RtnCodeOf(form) == IF RtnCodeText(form) = <<>> THEN 0 ELSE IntOf(RtnCodeText(form))

\* the signature posted, and whether it is the digest of the form
SentSignature(form) == Strip(OrEmpty(form.CheckMacValue))

SignatureBad(form) ==
    \/ SentSignature(form) = <<>>
    \/ Upper(SentSignature(form)) # Upper(GenerateCheckValue(form))

\* the notification passed verify_checkmac
SignatureVerified(form) == ~SignatureBad(form) /\ ~SdkClientRaises

TradeNoBlank(form) == Strip(OrEmpty(form.MerchantTradeNo)) = <<>>

\* the ids of the rows the notification names
Named(form) == OrdersByTradeNo(Strip(OrEmpty(form.MerchantTradeNo)))

\* the return code of the notification is a number, and which
RtnCodeIsNumber(form) == RtnCodeText(form) = <<>> \/ IsIntLiteral(RtnCodeText(form))

\* notify_return without the paid_at assignment
ApplyNotificationNoPaidAt(o, form, t) ==
    LET rtn_code == RtnCodeOf(form)
        simulate == OrEmpty(form.SimulatePaid)
    IN  [o EXCEPT
            !.rtn_code = Some(rtn_code),
            !.rtn_msg = OrNone(Strip(OrEmpty(form.RtnMsg))),
            !.payment_type = OrNone(Strip(OrEmpty(form.PaymentType))),
            !.ecpay_trade_no = OrNone(Strip(OrEmpty(form.TradeNo))),
            !.is_simulated = (Strip(IF simulate = <<>> THEN <<"0">> ELSE simulate) = <<"1">>),
            !.checkmac_valid = TRUE,
            !.status = IF rtn_code = 1 THEN "paid" ELSE "failed"]

\* notify_return without the checkmac_valid assignment
ApplyNotificationNoFlag(o, form, t) ==
    LET rtn_code == RtnCodeOf(form)
        simulate == OrEmpty(form.SimulatePaid)
    IN  [o EXCEPT
            !.rtn_code = Some(rtn_code),
            !.rtn_msg = OrNone(Strip(OrEmpty(form.RtnMsg))),
            !.payment_type = OrNone(Strip(OrEmpty(form.PaymentType))),
            !.ecpay_trade_no = OrNone(Strip(OrEmpty(form.TradeNo))),
            !.is_simulated = (Strip(IF simulate = <<>> THEN <<"0">> ELSE simulate) = <<"1">>),
            !.status = IF rtn_code = 1 THEN "paid" ELSE "failed",
            !.paid_at = IF rtn_code = 1 THEN Some(t) ELSE @]

\* notify_return keeping the stored rtn_msg when the notification has none
ApplyNotificationKeepsMsg(o, form, t) ==
    LET rtn_code == RtnCodeOf(form)
        simulate == OrEmpty(form.SimulatePaid)
        rtn_msg == OrNone(Strip(OrEmpty(form.RtnMsg)))
    IN  [o EXCEPT
            !.rtn_code = Some(rtn_code),
            !.rtn_msg = IF rtn_msg = Null THEN @ ELSE rtn_msg,
            !.payment_type = OrNone(Strip(OrEmpty(form.PaymentType))),
            !.ecpay_trade_no = OrNone(Strip(OrEmpty(form.TradeNo))),
            !.is_simulated = (Strip(IF simulate = <<>> THEN <<"0">> ELSE simulate) = <<"1">>),
            !.checkmac_valid = TRUE,
            !.status = IF rtn_code = 1 THEN "paid" ELSE "failed",
            !.paid_at = IF rtn_code = 1 THEN Some(t) ELSE @]

\* notify_return, lines 245-257: the fields written on the order
ApplyNotification(o, form, t) ==
    LET rtn_code == RtnCodeOf(form)
        simulate == OrEmpty(form.SimulatePaid)
    IN  [o EXCEPT
            !.rtn_code = Some(rtn_code),
            !.rtn_msg = OrNone(Strip(OrEmpty(form.RtnMsg))),
            !.payment_type = OrNone(Strip(OrEmpty(form.PaymentType))),
            !.ecpay_trade_no = OrNone(Strip(OrEmpty(form.TradeNo))),
            !.is_simulated = (Strip(IF simulate = <<>> THEN <<"0">> ELSE simulate) = <<"1">>),
            !.checkmac_valid = TRUE,
            !.status = IF rtn_code = 1 THEN "paid" ELSE "failed",
            !.paid_at = IF rtn_code = 1 THEN Some(t) ELSE @]

\* notify_return() with the failed commit leaving its changes in the store
NotifyReturnResultNoRollback(form, commit_ok) ==
    LET merchant_trade_no == Strip(OrEmpty(form.MerchantTradeNo))
        verdict == VerifyCheckmac(form)
        found == OrdersByTradeNo(merchant_trade_no)
        id == CHOOSE i \in found : TRUE
    IN  IF merchant_trade_no = <<>>
            THEN [orders |-> orders, resp |-> Response(200, "0|Missing MerchantTradeNo")]
        ELSE IF verdict = "raise" THEN [orders |-> orders, resp |-> ServerError]
        ELSE IF verdict = "invalid"
            THEN [orders |-> orders, resp |-> Response(200, "0|CheckMacValue Error")]
        ELSE IF found = {}
            THEN [orders |-> orders, resp |-> Response(200, "0|Order Not Found")]
        ELSE IF RtnCodeRaises(form) THEN [orders |-> orders, resp |-> ServerError]
        ELSE IF ~commit_ok
            THEN [orders |-> [orders EXCEPT ![id] = ApplyNotification(orders[id], form, now)],
                  resp |-> Response(200, "0|DB Error")]
        ELSE [orders |-> [orders EXCEPT ![id] = ApplyNotification(orders[id], form, now)],
              resp |-> Response(200, "1|OK")]

\* notify_return() looking the order up before it verifies the signature
NotifyReturnResultLookupFirst(form, commit_ok) ==
    LET merchant_trade_no == Strip(OrEmpty(form.MerchantTradeNo))
        verdict == VerifyCheckmac(form)
        found == OrdersByTradeNo(merchant_trade_no)
        id == CHOOSE i \in found : TRUE
    IN  IF merchant_trade_no = <<>>
            THEN [orders |-> orders, resp |-> Response(200, "0|Missing MerchantTradeNo")]
        ELSE IF found = {}
            THEN [orders |-> orders, resp |-> Response(200, "0|Order Not Found")]
        ELSE IF verdict = "raise" THEN [orders |-> orders, resp |-> ServerError]
        ELSE IF verdict = "invalid"
            THEN [orders |-> orders, resp |-> Response(200, "0|CheckMacValue Error")]
        ELSE IF RtnCodeRaises(form) THEN [orders |-> orders, resp |-> ServerError]
        ELSE IF ~commit_ok
            THEN [orders |-> orders, resp |-> Response(200, "0|DB Error")]
        ELSE [orders |-> [orders EXCEPT ![id] = ApplyNotification(orders[id], form, now)],
              resp |-> Response(200, "1|OK")]

\* notify_return(): the rows and the response
NotifyReturnResult(form, commit_ok) ==
    LET merchant_trade_no == Strip(OrEmpty(form.MerchantTradeNo))
        verdict == VerifyCheckmac(form)
        found == OrdersByTradeNo(merchant_trade_no)
        id == CHOOSE i \in found : TRUE
    IN  IF merchant_trade_no = <<>>
            THEN [orders |-> orders, resp |-> Response(200, "0|Missing MerchantTradeNo")]
        ELSE IF verdict = "raise" THEN [orders |-> orders, resp |-> ServerError]
        ELSE IF verdict = "invalid"
            THEN [orders |-> orders, resp |-> Response(200, "0|CheckMacValue Error")]
        ELSE IF found = {}
            THEN [orders |-> orders, resp |-> Response(200, "0|Order Not Found")]
        ELSE IF RtnCodeRaises(form) THEN [orders |-> orders, resp |-> ServerError]
        ELSE IF ~commit_ok
            THEN [orders |-> orders, resp |-> Response(200, "0|DB Error")]
        ELSE [orders |-> [orders EXCEPT ![id] = ApplyNotification(orders[id], form, now)],
              resp |-> Response(200, "1|OK")]

\* POST /return with one of the given forms
Notify(forms) ==
    /\ Accepting
    /\ served' = served + 1
    /\ \E form \in forms :
        \E commit_ok \in CommitAnswers(NotifyReturnResult(form, TRUE).resp.body = "1|OK") :
        LET r == NotifyReturnResult(form, commit_ok)
        IN  /\ orders' = r.orders
            /\ resp' = r.resp
            /\ req' = [kind |-> "return", form |-> form, commit_ok |-> commit_ok,
                       at |-> now]
            /\ before' = Snapshot
            /\ settled' = IF /\ r.resp.body = "1|OK"
                              /\ SignatureVerified(form)
                              /\ RtnCodeIsNumber(form)
                              /\ RtnCodeOf(form) = 1
                           THEN settled \cup Named(form) ELSE settled
            /\ UNCHANGED <<tokens, config, now, shown, issued, views>>

NotifyReturn == Notify(ReturnForms)

(***************************************************************************)
(* Token issuance (_create_or_get_token)                                   *)
(***************************************************************************)
TtlHours == 24

\* the strings secrets.token_urlsafe(32) may return
TokenName(i) == <<"k">> \o Digits(i)

UsedTokenNames == {t.token : t \in tokens}

\* the draws that matter: one string no row holds yet (while any is left),
\* and every string a row already holds
DrawableTokens ==
    LET unused == {i \in 1..MaxTokens : TokenName(i) \notin UsedTokenNames}
    IN  UsedTokenNames
            \cup (IF unused = {} THEN {}
                  ELSE {TokenName(CHOOSE i \in unused : \A j \in unused : i <= j)})

\* gen_dir / f"{order.merchant_trade_no}.docx"
GeneratedPath(trade_no) ==
    [dir |-> Cfg("GENERATED_FILES_PATH", <<"/", "g">>), name |-> trade_no]

\* DownloadToken.query.filter_by(order_id=...).order_by(created_at.desc()).first():
\* Null, or any one of the order's rows with the greatest created_at
LatestTokens(order_id) ==
    LET mine == {t \in tokens : t.order_id = order_id}
    IN  IF mine = {} THEN {Null}
        ELSE {Some(t) : t \in {u \in mine : \A v \in mine : v.created_at <= u.created_at}}

\* the reuse test with >= in place of >
ReusableAtExpiry(latest, t) == latest # Null /\ latest[1].expires_at >= t

\* the reuse test on created_at in place of expires_at
ReusableByCreatedAt(latest, t) == latest # Null /\ latest[1].created_at > t

\* whether _create_or_get_token reuses the row the query returned
Reusable(latest, t) == latest # Null /\ latest[1].expires_at > t

\* _create_or_get_token renewing the validity window of a token it reuses
CreateOrGetTokenRenews(order_id, file_path, latest, drawn, commit_ok, t) ==
    IF Reusable(latest, t)
    THEN [tokens |-> (tokens \ {latest[1]})
                        \cup {[latest[1] EXCEPT !.file_path = file_path,
                                                !.expires_at = t + TtlHours]},
          token |-> latest[1].token, raised |-> FALSE]
    ELSE IF commit_ok /\ drawn \notin UsedTokenNames
         THEN [tokens |-> tokens \cup {[token      |-> drawn,
                                        order_id   |-> order_id,
                                        file_path  |-> file_path,
                                        created_at |-> t,
                                        expires_at |-> t + TtlHours]},
               token |-> drawn, raised |-> FALSE]
         ELSE [tokens |-> tokens, token |-> drawn, raised |-> TRUE]

\* _create_or_get_token(order, file_path, 24), given the row the query
\* returned, the string drawn and whether the commit succeeds: the table, the
\* token returned, and whether an exception leaves the function
CreateOrGetToken(order_id, file_path, latest, drawn, commit_ok, t) ==
    IF Reusable(latest, t)
    THEN IF latest[1].file_path # file_path
         THEN IF commit_ok
              THEN [tokens |-> (tokens \ {latest[1]})
                                  \cup {[latest[1] EXCEPT !.file_path = file_path]},
                    token |-> latest[1].token, raised |-> FALSE]
              ELSE [tokens |-> tokens, token |-> latest[1].token, raised |-> TRUE]
         ELSE [tokens |-> tokens, token |-> latest[1].token, raised |-> FALSE]
    ELSE IF commit_ok /\ drawn \notin UsedTokenNames
         THEN [tokens |-> tokens \cup {[token      |-> drawn,
                                        order_id   |-> order_id,
                                        file_path  |-> file_path,
                                        created_at |-> t,
                                        expires_at |-> t + TtlHours]},
               token |-> drawn, raised |-> FALSE]
         ELSE [tokens |-> tokens, token |-> drawn, raised |-> TRUE]

(***************************************************************************)
(* GET|POST /order_result                                                  *)
(***************************************************************************)
Page(status, download_url) == [Response(200, status) EXCEPT !.data = download_url]

\* the paid branch of order_result() stamping delivered_at on every view
PaidResultRestamps(id, file_exists, latest, drawn, commit_token_ok, commit_delivered_ok) ==
    LET o == orders[id]
        got == CreateOrGetToken(id, GeneratedPath(o.merchant_trade_no), latest, drawn,
                                commit_token_ok, now)
        tokens1 == IF file_exists THEN got.tokens ELSE tokens
        download_url == IF file_exists THEN Some(got.token) ELSE Null
        stamped == [orders EXCEPT ![id].delivered_at = Some(now)]
    IN  IF file_exists /\ got.raised
            THEN [orders |-> orders, tokens |-> tokens, resp |-> ServerError]
        ELSE IF commit_delivered_ok
            THEN [orders |-> stamped, tokens |-> tokens1, resp |-> Page("paid", download_url)]
        ELSE [orders |-> orders, tokens |-> tokens1, resp |-> Page("paid", download_url)]

\* the paid branch of order_result() refreshing paid_at together with the stamp
PaidResultTouchesPaidAt(id, file_exists, latest, drawn, commit_token_ok, commit_delivered_ok) ==
    LET o == orders[id]
        got == CreateOrGetToken(id, GeneratedPath(o.merchant_trade_no), latest, drawn,
                                commit_token_ok, now)
        tokens1 == IF file_exists THEN got.tokens ELSE tokens
        download_url == IF file_exists THEN Some(got.token) ELSE Null
        stamped == [orders EXCEPT ![id].delivered_at = Some(now), ![id].paid_at = Some(now)]
    IN  IF file_exists /\ got.raised
            THEN [orders |-> orders, tokens |-> tokens, resp |-> ServerError]
        ELSE IF o.delivered_at = Null /\ commit_delivered_ok
            THEN [orders |-> stamped, tokens |-> tokens1, resp |-> Page("paid", download_url)]
        ELSE [orders |-> orders, tokens |-> tokens1, resp |-> Page("paid", download_url)]

\* order_result(), lines 294-342, for a paid order: the token step when the
\* deliverable exists, then the delivered_at stamp
PaidResult(id, file_exists, latest, drawn, commit_token_ok, commit_delivered_ok) ==
    LET o == orders[id]
        got == CreateOrGetToken(id, GeneratedPath(o.merchant_trade_no), latest, drawn,
                                commit_token_ok, now)
        tokens1 == IF file_exists THEN got.tokens ELSE tokens
        download_url == IF file_exists THEN Some(got.token) ELSE Null
        stamped == [orders EXCEPT ![id].delivered_at = Some(now)]
    IN  IF file_exists /\ got.raised
            THEN [orders |-> orders, tokens |-> tokens, resp |-> ServerError]
        ELSE IF o.delivered_at = Null /\ commit_delivered_ok
            THEN [orders |-> stamped, tokens |-> tokens1, resp |-> Page("paid", download_url)]
        ELSE [orders |-> orders, tokens |-> tokens1, resp |-> Page("paid", download_url)]

\* order_result(): the rows and the response
OrderResultResult(trade_no, file_exists, latest, drawn, commit_token_ok, commit_delivered_ok) ==
    LET merchant_trade_no == Strip(OrEmpty(trade_no))
        found == OrdersByTradeNo(merchant_trade_no)
        id == CHOOSE i \in found : TRUE
        same == [orders |-> orders, tokens |-> tokens]
    IN  IF CfgMissing("ECPAY_CLIENT_BACK_URL")
            THEN [orders |-> orders, tokens |-> tokens, resp |-> ServerError]
        ELSE IF merchant_trade_no = <<>>
            THEN [orders |-> orders, tokens |-> tokens, resp |-> Page("missing", Null)]
        ELSE IF found = {}
            THEN [orders |-> orders, tokens |-> tokens, resp |-> Page("not_found", Null)]
        ELSE IF ~IsPaid(orders[id])
            THEN [orders |-> orders, tokens |-> tokens,
                  resp |-> Page(IF orders[id].status = "created" THEN "pending" ELSE "failed",
                                Null)]
        ELSE PaidResult(id, file_exists, latest, drawn, commit_token_ok, commit_delivered_ok)

\* the rows the token query may return for the order a trade number names
LatestFor(trade_no) ==
    LET found == OrdersByTradeNo(Strip(OrEmpty(trade_no)))
    IN  IF found = {} THEN {Null} ELSE LatestTokens(CHOOSE i \in found : TRUE)

\* whether order_result reaches _create_or_get_token for this request
ReachesToken(trade_no, file_exists) ==
    LET found == OrdersByTradeNo(Strip(OrEmpty(trade_no)))
    IN  /\ ~CfgMissing("ECPAY_CLIENT_BACK_URL")
        /\ found # {}
        /\ IsPaid(orders[CHOOSE i \in found : TRUE])
        /\ file_exists

\* whether _create_or_get_token reaches a commit: it mints, or re-paths
TokenCommitReached(trade_no, file_exists, latest) ==
    /\ ReachesToken(trade_no, file_exists)
    /\ \/ ~Reusable(latest, now)
       \/ latest[1].file_path # GeneratedPath(Strip(OrEmpty(trade_no)))

\* the strings drawn: none (written as the empty string) unless a token is minted
Draws(trade_no, file_exists, latest) ==
    IF ReachesToken(trade_no, file_exists) /\ ~Reusable(latest, now)
    THEN DrawableTokens ELSE {<<>>}

\* whether order_result reaches the commit of the delivered_at stamp
StampCommitReached(trade_no, file_exists, latest, drawn, commit_token_ok) ==
    LET r == OrderResultResult(trade_no, file_exists, latest, drawn, commit_token_ok, TRUE)
        found == OrdersByTradeNo(Strip(OrEmpty(trade_no)))
    IN  /\ r.resp.body = "paid"
        /\ orders[CHOOSE i \in found : TRUE].delivered_at = Null

OrderResult ==
    /\ Accepting
    /\ served' = served + 1
    /\ \E trade_no \in TradeNoInputs, file_exists \in BOOLEAN :
        \E latest \in LatestFor(trade_no) :
        \E drawn \in Draws(trade_no, file_exists, latest) :
        \E commit_token_ok \in CommitAnswers(TokenCommitReached(trade_no, file_exists, latest)) :
        \E commit_delivered_ok \in
                CommitAnswers(StampCommitReached(trade_no, file_exists, latest, drawn,
                                                 commit_token_ok)) :
            LET r == OrderResultResult(trade_no, file_exists, latest, drawn,
                                       commit_token_ok, commit_delivered_ok)
            IN  /\ orders' = r.orders
                /\ tokens' = r.tokens
                /\ resp' = r.resp
                /\ req' = [kind |-> "order_result", trade_no |-> trade_no,
                           file_exists |-> file_exists, drawn |-> drawn,
                           commit_token_ok |-> commit_token_ok,
                           commit_delivered_ok |-> commit_delivered_ok, at |-> now]
                /\ before' = Snapshot
                /\ shown' = IF r.resp.body = "paid" /\ r.resp.data # Null
                             THEN [shown EXCEPT ![OrderNamed(trade_no)] = r.resp.data]
                             ELSE shown
                /\ UNCHANGED <<config, now, issued, settled, views>>

(***************************************************************************)
(* GET /download/<token>                                                   *)
(***************************************************************************)
UnknownToken == <<"z">>

\* download(token) with the expiry test < in place of <=
DownloadResultStrictExpiry(token, file_exists) ==
    LET rows == {t \in tokens : t.token = token}
        dt == CHOOSE t \in rows : TRUE
    IN  IF rows = {} THEN Response(404, "Not Found")
        ELSE IF dt.expires_at < now THEN Response(410, "Gone")
        ELSE IF dt.order_id \notin DOMAIN orders \/ ~IsPaid(orders[dt.order_id])
            THEN Response(403, "Forbidden")
        ELSE IF ~file_exists THEN Response(404, "Not Found")
        ELSE [Response(200, "attachment") EXCEPT
                !.data = Some(orders[dt.order_id].merchant_trade_no)]

\* download(token): the response; nothing is written
DownloadResult(token, file_exists) ==
    LET rows == {t \in tokens : t.token = token}
        dt == CHOOSE t \in rows : TRUE
    IN  IF rows = {} THEN Response(404, "Not Found")
        ELSE IF dt.expires_at <= now THEN Response(410, "Gone")
        ELSE IF dt.order_id \notin DOMAIN orders \/ ~IsPaid(orders[dt.order_id])
            THEN Response(403, "Forbidden")
        ELSE IF ~file_exists THEN Response(404, "Not Found")
        ELSE [Response(200, "attachment") EXCEPT
                !.data = Some(orders[dt.order_id].merchant_trade_no)]

Download ==
    /\ Accepting
    /\ served' = served + 1
    /\ \E token \in UsedTokenNames \cup {UnknownToken}, file_exists \in BOOLEAN :
        /\ resp' = DownloadResult(token, file_exists)
        /\ req' = [kind |-> "download", token |-> token, file_exists |-> file_exists,
                   at |-> now]
        /\ before' = Snapshot
        /\ UNCHANGED <<orders, tokens, config, now, shown, issued, settled, views>>

(***************************************************************************)
(* The system: requests served one at a time                               *)
(***************************************************************************)
Next ==
    \/ Create
    \/ NotifyReturn
    \/ OrderResult
    \/ Download
    \/ Respond
    \/ Tick

Spec == Init /\ [][Next]_vars

(***************************************************************************)
(* The checkout side alone: /create under every shape of the               *)
(* APP_TRADE_NO_PREFIX setting (unset, empty, blank, and one with blanks,  *)
(* a character that is not alphanumeric, and more than four characters),   *)
(* and the gateway notifying payment of trade numbers it was given         *)
(***************************************************************************)
PrefixInputs ==
    {Null, Some(<<>>), Some(<<" ">>), Some(<<"C", "T">>),
     Some(<<" ", "a", "-", "b", "c", "d", "e", " ">>)}

CheckoutConfigs == {[FullConfig EXCEPT !.APP_TRADE_NO_PREFIX = p] : p \in PrefixInputs}

InitCheckout ==
    /\ orders = <<>>
    /\ tokens = {}
    /\ config \in CheckoutConfigs
    /\ now = 0
    /\ req = NoRequest
    /\ resp = NoResponse
    /\ before = NoTables
    /\ served = 0
    /\ shown = <<>>
    /\ issued = {}
    /\ settled = {}
    /\ views = NoViews

\* the gateway posts a signed payment notification for a trade number it
\* received in a redirect form
GatewayConfirms ==
    Notify({Signed(Unsigned(Some(trade_no), PaidFields)) : trade_no \in issued})

NextCheckout ==
    \/ Create
    \/ GatewayConfirms
    \/ Respond
    \/ Tick

SpecCheckout == InitCheckout /\ [][NextCheckout]_vars

(***************************************************************************)
(* Result-page views that interleave.  Each request has its own database   *)
(* session, so order_result() is cut where it reads and where it commits:  *)
(*   ViewBegin       lines 274-318 and, in _create_or_get_token, 122-133   *)
(*   ViewMint        lines 135-144 (insert and commit of the token)        *)
(*   ViewStampRead   lines 325-326 (the order is reloaded after a commit)  *)
(*   ViewStampCommit lines 327-342                                         *)
(* The store starts with one order, created by /create and then either     *)
(* paid by a verified notification or not yet notified.                    *)
(***************************************************************************)
RaceOrderId == 1

\* the trade number /create generated for it: prefix CT, clock 0, suffix 07
RaceTradeNo == <<"C", "T", "0", "0", "7">>

\* the order as /create inserted it
RaceCreatedOrder == NewOrder(RaceOrderId, RaceTradeNo, 50)

\* the order after a verified payment notification at clock 0
RacePaidOrder ==
    ApplyNotification(RaceCreatedOrder, Signed(Unsigned(Some(RaceTradeNo), PaidFields)), 0)

InitRace ==
    /\ config = FullConfig
    /\ now = 0
    /\ orders \in {<<RaceCreatedOrder>>, <<RacePaidOrder>>}
    /\ tokens = {}
    /\ req = NoRequest
    /\ resp = NoResponse
    /\ before = NoTables
    /\ served = 0
    /\ shown = <<Null>>
    /\ issued = {RaceTradeNo}
    /\ settled = IF IsPaid(orders[RaceOrderId]) THEN {RaceOrderId} ELSE {}
    /\ views = NoViews

RaceFrame == UNCHANGED <<config, now, req, resp, before, served, shown, issued, settled>>

\* the view looks its order up, tests is_paid, looks for the file and, when
\* the file is there, reads the clock and the latest token of the order
ViewBegin(v) ==
    /\ views[v].pc = "idle"
    /\ \E file_exists \in BOOLEAN, latest \in LatestTokens(RaceOrderId) :
        LET o == orders[RaceOrderId]
            seen == [views[v] EXCEPT !.file_exists = file_exists, !.t = now,
                                     !.loaded = o.delivered_at]
        IN  views' = [views EXCEPT ![v] =
                IF ~IsPaid(o)
                    THEN [seen EXCEPT !.pc = "done",
                            !.page = IF o.status = "created" THEN "pending" ELSE "failed"]
                ELSE IF ~file_exists THEN [seen EXCEPT !.pc = "stamp_read"]
                ELSE IF Reusable(latest, now)
                          /\ latest[1].file_path = GeneratedPath(o.merchant_trade_no)
                    THEN [seen EXCEPT !.pc = "stamp_read", !.latest = latest,
                                      !.token = Some(latest[1].token)]
                ELSE [seen EXCEPT !.pc = "mint", !.latest = latest]]
    /\ UNCHANGED <<orders, tokens>>
    /\ RaceFrame

\* the view inserts its token row and commits, with the clock value and the
\* latest token it read in ViewBegin; the commit expires the loaded order
ViewMint(v) ==
    /\ views[v].pc = "mint"
    /\ \E drawn \in DrawableTokens, commit_ok \in BOOLEAN :
        LET got == CreateOrGetToken(RaceOrderId,
                                    GeneratedPath(orders[RaceOrderId].merchant_trade_no),
                                    views[v].latest, drawn, commit_ok, views[v].t)
        IN  IF got.raised
            THEN /\ views' = [views EXCEPT ![v].pc = "done", ![v].page = "error"]
                 /\ UNCHANGED tokens
            ELSE /\ views' = [views EXCEPT ![v].pc = "stamp_read", ![v].reloads = TRUE,
                                            ![v].token = Some(got.token)]
                 /\ tokens' = got.tokens
    /\ UNCHANGED orders
    /\ RaceFrame

\* if order.delivered_at is None: order.delivered_at = utcnow()
ViewStampRead(v) ==
    /\ views[v].pc = "stamp_read"
    /\ LET delivered_at == IF views[v].reloads THEN orders[RaceOrderId].delivered_at
                           ELSE views[v].loaded
       IN  views' = [views EXCEPT ![v] =
                IF delivered_at = Null
                THEN [@ EXCEPT !.pc = "stamp_commit", !.stamp = Some(now)]
                ELSE [@ EXCEPT !.pc = "done", !.page = "paid"]]
    /\ UNCHANGED <<orders, tokens>>
    /\ RaceFrame

\* the commit of the stamp, its failure swallowed, and the page
ViewStampCommit(v) ==
    /\ views[v].pc = "stamp_commit"
    /\ \E commit_ok \in BOOLEAN :
        /\ orders' = IF commit_ok
                      THEN [orders EXCEPT ![RaceOrderId].delivered_at = views[v].stamp]
                      ELSE orders
        /\ views' = [views EXCEPT ![v].pc = "done", ![v].page = "paid",
                                   ![v].wrote = commit_ok]
    /\ UNCHANGED tokens
    /\ RaceFrame

NextRace ==
    \/ \E v \in Viewers : ViewBegin(v)
    \/ \E v \in Viewers : ViewMint(v)
    \/ \E v \in Viewers : ViewStampRead(v)
    \/ \E v \in Viewers : ViewStampCommit(v)
    \/ Download
    \/ Respond
    \/ Tick

SpecRace == InitRace /\ [][NextRace]_vars

(***************************************************************************)
(* Properties.  A state in which req is not NoRequest is the state right   *)
(* after the handler of req ran: resp is its answer, before holds the      *)
(* tables as the request found them, and now is the time it was handled.   *)
(***************************************************************************)
IsReturn == req.kind = "return"

TablesUnchanged == orders = before.orders /\ tokens = before.tokens

\* C1, as claimed: a notification whose CheckMacValue is missing, empty or
\* different from the computed digest (case-insensitively) is answered
\* "0|CheckMacValue Error" and leaves every Order and DownloadToken row as it was.
C1_AsClaimed ==
    (IsReturn /\ SignatureBad(req.form))
        => (resp.body = "0|CheckMacValue Error" /\ TablesUnchanged)

\* C1, amended: such a notification leaves every Order and DownloadToken row as
\* it was.  It is answered "0|Missing MerchantTradeNo" when the trade number is
\* missing or blank; otherwise it fails with an unhandled configuration error
\* when a non-empty signature is posted and the SDK client cannot be built; and
\* otherwise it is answered "0|CheckMacValue Error".
C1_BadSignatureNeverMutates ==
    (IsReturn /\ SignatureBad(req.form))
        => /\ TablesUnchanged
           /\ resp = IF TradeNoBlank(req.form)
                        THEN Response(200, "0|Missing MerchantTradeNo")
                     ELSE IF SentSignature(req.form) # <<>> /\ SdkClientRaises
                        THEN ServerError
                     ELSE Response(200, "0|CheckMacValue Error")

\* a payment notification with a wrong digest for a stored order was rejected
C1_Witness ==
    /\ IsReturn
    /\ SignatureBad(req.form)
    /\ SentSignature(req.form) # <<>>
    /\ Named(req.form) # {}
    /\ RtnCodeIsNumber(req.form) /\ RtnCodeOf(req.form) = 1
    /\ resp.body = "0|CheckMacValue Error"

\* C2: a verified notification with RtnCode 1 for a stored order in status
\* created, whose commit succeeds, leaves the order paid, with checkmac_valid
\* set and paid_at the time of processing.
C2_PaidTransition ==
    (/\ IsReturn
     /\ SignatureVerified(req.form)
     /\ Named(req.form) # {}
     /\ RtnCodeIsNumber(req.form) /\ RtnCodeOf(req.form) = 1
     /\ req.commit_ok)
        => \A i \in Named(req.form) :
                before.orders[i].status = "created"
                    => /\ orders[i].status = "paid"
                       /\ orders[i].checkmac_valid
                       /\ orders[i].paid_at = Some(now)

\* a created order has just been paid, some hours after it was created
C2_Witness ==
    /\ IsReturn
    /\ resp.body = "1|OK"
    /\ now > 0
    /\ \E i \in Named(req.form) :
        /\ before.orders[i].status = "created"
        /\ before.orders[i].paid_at = Null
        /\ orders[i].status = "paid"
        /\ orders[i].paid_at = Some(now)

\* C3, as claimed: a verified notification with a return code other than 1
\* (a missing or empty one is read as 0) for a stored order, once committed,
\* leaves the order failed, with checkmac_valid set and paid_at unset, whatever
\* the order's state was.
C3_AsClaimed ==
    (/\ IsReturn
     /\ SignatureVerified(req.form)
     /\ Named(req.form) # {}
     /\ RtnCodeIsNumber(req.form) /\ RtnCodeOf(req.form) # 1
     /\ req.commit_ok)
        => \A i \in Named(req.form) :
                /\ orders[i].status = "failed"
                /\ orders[i].checkmac_valid
                /\ orders[i].paid_at = Null

\* C4, as claimed: once a notification has moved an order out of created, no
\* later notification changes its status.
C4_AsClaimed ==
    IsReturn
        => \A i \in DOMAIN before.orders :
                before.orders[i].status # "created"
                    => orders[i].status = before.orders[i].status

\* C5: every paid order has checkmac_valid set, so is_paid holds exactly of the
\* orders whose status is paid; a created order has checkmac_valid unset and
\* is not is_paid.
C5_PaidImpliesVerified ==
    \A i \in DOMAIN orders :
        /\ orders[i].status = "paid" => orders[i].checkmac_valid
        /\ IsPaid(orders[i]) <=> orders[i].status = "paid"
        /\ orders[i].status = "created" => (~orders[i].checkmac_valid /\ ~IsPaid(orders[i]))

\* one order is paid and another is still created
C5_Witness ==
    /\ \E i \in DOMAIN orders : orders[i].status = "paid" /\ IsPaid(orders[i])
    /\ \E i \in DOMAIN orders : orders[i].status = "created"

IsDownload == req.kind = "download"

RejectionBodies ==
    {"0|Missing MerchantTradeNo", "0|CheckMacValue Error", "0|Order Not Found", "0|DB Error"}

\* C7: with the configuration complete, the answer is "1|OK" exactly when the
\* trade number is present, the signature verifies, the order exists and the
\* commit succeeds; in every other outcome the body is one of the "0|<reason>"
\* lines and the tables are as before the request.
C7_AsClaimed ==
    (IsReturn /\ ~SdkClientRaises)
        => /\ resp.body = "1|OK"
                <=> (/\ ~TradeNoBlank(req.form)
                     /\ SignatureVerified(req.form)
                     /\ Named(req.form) # {}
                     /\ req.commit_ok)
           /\ resp.body # "1|OK" => (resp.body \in RejectionBodies /\ TablesUnchanged)

\* C8: when the commit of notify_return fails, the tables are as before the
\* request and the answer is "0|DB Error"; delivering the same notification
\* again, with the commit succeeding, then gives the order the state that a
\* first successful delivery to the order as it was before would have given.
C8_CommitFailureRollsBack ==
    (IsReturn /\ ~req.commit_ok)
        => /\ resp = Response(200, "0|DB Error")
           /\ TablesUnchanged
           /\ \A i \in Named(req.form) :
                NotifyReturnResult(req.form, TRUE)
                    = [orders |-> [before.orders EXCEPT
                                      ![i] = ApplyNotification(before.orders[i], req.form, now)],
                       resp |-> Response(200, "1|OK")]

\* the commit of a payment notification for a created order failed, and its
\* re-delivery would pay the order
C8_Witness ==
    /\ IsReturn
    /\ ~req.commit_ok
    /\ resp.body = "0|DB Error"
    /\ \E i \in Named(req.form) :
        /\ before.orders[i].status = "created"
        /\ orders[i].status = "created"
        /\ NotifyReturnResult(req.form, TRUE).orders[i].status = "paid"

IsView == req.kind = "order_result"

TokenNames(rows) == {t.token : t \in rows}

\* C9: when the result page of a paid order whose file exists is rendered
\* after an earlier rendering gave a download link, it gives the same token
\* and adds no row if it is rendered strictly before that token's expires_at,
\* which is 24 hours after the token was minted; rendered at or after
\* expires_at it gives a token string no row held before, in one new row.
C9_TokenReuse ==
    (IsView /\ resp.body = "paid" /\ req.file_exists)
        => LET i == OrderNamed(req.trade_no)
               prev == before.shown[i]
           IN  prev # Null
                => /\ \E t \in before.tokens : t.token = prev[1] /\ t.order_id = i
                   /\ \A t \in before.tokens :
                        t.token = prev[1]
                            => /\ t.expires_at = t.created_at + 24
                               /\ now < t.expires_at
                                    => (resp.data = prev /\ tokens = before.tokens)
                               /\ now >= t.expires_at
                                    => /\ resp.data # Null
                                       /\ resp.data # prev
                                       /\ resp.data[1] \notin TokenNames(before.tokens)
                                       /\ before.tokens \subseteq tokens
                                       /\ Cardinality(tokens) = Cardinality(before.tokens) + 1
                                       /\ \E u \in tokens : u.token = resp.data[1] /\ u.order_id = i

\* the page was rendered at the very hour the earlier token expires, and
\* gives another token
C9_Witness ==
    /\ IsView
    /\ resp.body = "paid"
    /\ req.file_exists
    /\ before.shown[OrderNamed(req.trade_no)] # Null
    /\ resp.data # before.shown[OrderNamed(req.trade_no)]
    /\ \E t \in before.tokens : /\ t.token = before.shown[OrderNamed(req.trade_no)][1]
                                /\ t.expires_at = now

LiveTokens(i) == {t \in tokens : t.order_id = i /\ t.expires_at > now}

\* C10: with requests served one at a time and a clock that never goes back,
\* every order has at most one token with expires_at > now; a token is minted
\* only when no token of its order has expires_at > now; and among the tokens
\* of one order a later created_at means a later or equal expires_at.
C10_OneLiveToken ==
    /\ \A i \in DOMAIN orders : Cardinality(LiveTokens(i)) <= 1
    /\ \A t \in tokens, u \in tokens :
        (t.order_id = u.order_id /\ t.created_at <= u.created_at)
            => t.expires_at <= u.expires_at
    /\ IsView
        => \A t \in tokens :
                t.token \notin TokenNames(before.tokens)
                    => ~\E u \in before.tokens : u.order_id = t.order_id /\ u.expires_at > now

\* an order has an expired token and one that was just minted
C10_Witness ==
    /\ IsView
    /\ tokens # before.tokens
    /\ \E i \in DOMAIN orders :
        /\ Cardinality({t \in tokens : t.order_id = i}) = 2
        /\ Cardinality(LiveTokens(i)) = 1

IsCreate == req.kind = "create"

\* C11: when /create returns the redirect form, the trade number in it has at
\* most 20 characters, whatever the configured prefix, and a row with that
\* trade number and status created was inserted by this request and is in the
\* store; and for every trade number ever returned in a form the store holds
\* its order at every later time, so that a verified notification naming it
\* is applied and not answered "0|Order Not Found".
C11_TradeNoPersistedBeforeForm ==
    /\ (IsCreate /\ resp.status = 200)
        => /\ resp.data # Null
           /\ Len(resp.data[1]) <= 20
           /\ resp.data[1] \in issued
           /\ \E i \in DOMAIN orders :
                /\ i \notin DOMAIN before.orders
                /\ orders[i].merchant_trade_no = resp.data[1]
                /\ orders[i].status = "created"
    /\ IsReturn /\ Strip(OrEmpty(req.form.MerchantTradeNo)) \in issued
        => resp.body # "0|Order Not Found"
    /\ \A trade_no \in issued :
        /\ Len(trade_no) <= 20
        /\ OrdersByTradeNo(trade_no) # {}
        /\ NotifyReturnResult(Signed(Unsigned(Some(trade_no), PaidFields)), TRUE).resp.body
                = "1|OK"

\* a second form was returned under the prefix that is stripped, filtered and
\* cut to four characters
C11_Witness ==
    /\ IsCreate
    /\ resp.status = 200
    /\ Cardinality(issued) = 2
    /\ Prefix(resp.data[1], 4) = <<"a", "b", "c", "d">>
    /\ Len(orders) = 2

\* C12: when a setting /create requires is missing (merchant id, service
\* URL, the three callback URLs, SDK path, hash key, hash IV), a /create
\* request ends in a configuration error and the orders are as before it.
C12_AsClaimed ==
    (IsCreate /\ \E k \in RequiredKeys : CfgMissing(k))
        => /\ resp = ServerError
           /\ orders = before.orders

BothMinted ==
    \A v \in Viewers :
        /\ views[v].pc = "done"
        /\ views[v].page = "paid"
        /\ views[v].file_exists
        /\ views[v].latest = Null
        /\ views[v].reloads

\* the delivered_at stamps the views committed
StampsWritten == {views[v].stamp[1] : v \in {w \in Viewers : views[w].wrote}}

\* C14: when two views of one paid order interleave and both read the token
\* table before either commits, each mints a token, so the order has two
\* tokens, each valid for 24 hours from the time its view read the clock; each
\* of them passes the download gate while it is unexpired; and the order row
\* is the one views served one after the other leave: the paid order with
\* delivered_at the first stamp committed, every other field untouched.
C14_AsClaimed ==
    BothMinted
        => LET mine == {t \in tokens : t.order_id = RaceOrderId}
           IN  /\ Cardinality(mine) = 2
               /\ tokens = mine
               /\ \A v \in Viewers :
                    \E t \in mine : /\ views[v].token = Some(t.token)
                                    /\ t.expires_at = views[v].t + TtlHours
                                    /\ t.file_path = GeneratedPath(RaceTradeNo)
               /\ \A t \in mine :
                    t.expires_at > now => DownloadResult(t.token, TRUE).status = 200
               /\ orders = <<[RacePaidOrder EXCEPT !.delivered_at =
                                IF StampsWritten = {} THEN Null
                                ELSE Some(CHOOSE x \in StampsWritten :
                                            \A y \in StampsWritten : x <= y)]>>

\* C15, as claimed: a blank or missing trade number is answered
\* "0|Missing MerchantTradeNo"; otherwise a signature that is missing, empty
\* or not the computed digest is answered "0|CheckMacValue Error", also for an
\* unknown trade number; otherwise an unknown trade number is answered
\* "0|Order Not Found"; and orders change only when all three tests pass.
C15_AsClaimed ==
    IsReturn
        => /\ TradeNoBlank(req.form)
                => resp = Response(200, "0|Missing MerchantTradeNo")
           /\ (~TradeNoBlank(req.form) /\ SignatureBad(req.form))
                => resp = Response(200, "0|CheckMacValue Error")
           /\ (~TradeNoBlank(req.form) /\ ~SignatureBad(req.form) /\ Named(req.form) = {})
                => resp = Response(200, "0|Order Not Found")
           /\ orders # before.orders
                => (/\ ~TradeNoBlank(req.form)
                    /\ ~SignatureBad(req.form)
                    /\ Named(req.form) # {})

\* C15, amended: the same order of tests, where the signature test of a
\* non-empty CheckMacValue needs the SDK client: when the client cannot be
\* built the request ends in an unhandled configuration error, before the
\* order is looked up; an empty or missing CheckMacValue is rejected without
\* the SDK.  No table changes unless all three tests pass.
C15_ValidationOrder ==
    IsReturn
        => /\ TradeNoBlank(req.form)
                => resp = Response(200, "0|Missing MerchantTradeNo")
           /\ (~TradeNoBlank(req.form) /\ SentSignature(req.form) = <<>>)
                => resp = Response(200, "0|CheckMacValue Error")
           /\ (~TradeNoBlank(req.form) /\ SentSignature(req.form) # <<>> /\ SdkClientRaises)
                => resp = ServerError
           /\ (~TradeNoBlank(req.form) /\ SignatureBad(req.form) /\ ~SdkClientRaises)
                => resp = Response(200, "0|CheckMacValue Error")
           /\ (~TradeNoBlank(req.form) /\ SignatureVerified(req.form) /\ Named(req.form) = {})
                => resp = Response(200, "0|Order Not Found")
           /\ ~TablesUnchanged
                => (/\ ~TradeNoBlank(req.form)
                    /\ SignatureVerified(req.form)
                    /\ Named(req.form) # {})

\* a wrong signature for an unknown trade number, while orders are stored, was
\* answered with the signature error
C15_Witness ==
    /\ IsReturn
    /\ ~TradeNoBlank(req.form)
    /\ SentSignature(req.form) # <<>>
    /\ SignatureBad(req.form)
    /\ ~SdkClientRaises
    /\ Named(req.form) = {}
    /\ Len(orders) > 0
    /\ resp.body = "0|CheckMacValue Error"

\* C16: a result-page view of a paid order whose file exists, with no
\* unexpired token and delivered_at unset, has a token to mint and a stamp to
\* write; after it either both are in the store or neither is, and if one of
\* its commits failed the tables are as before the request.
C16_AsClaimed ==
    (IsView /\ req.file_exists)
        => \A i \in OrdersByTradeNo(Strip(OrEmpty(req.trade_no))) :
            (/\ i \in DOMAIN before.orders
             /\ IsPaid(before.orders[i])
             /\ before.orders[i].delivered_at = Null
             /\ ~\E t \in before.tokens : t.order_id = i /\ t.expires_at > now)
                => /\ tokens # before.tokens <=> orders # before.orders
                   /\ (~req.commit_token_ok \/ ~req.commit_delivered_ok) => TablesUnchanged

\* the fields of an order that a notification writes unconditionally
GatewayView(o) ==
    [status |-> o.status, checkmac_valid |-> o.checkmac_valid, rtn_code |-> o.rtn_code,
     rtn_msg |-> o.rtn_msg, payment_type |-> o.payment_type,
     ecpay_trade_no |-> o.ecpay_trade_no, is_simulated |-> o.is_simulated]

\* what those fields are after a notification, read off the form alone
GatewayViewOf(form) ==
    [status |-> IF RtnCodeOf(form) = 1 THEN "paid" ELSE "failed",
     checkmac_valid |-> TRUE,
     rtn_code |-> Some(RtnCodeOf(form)),
     rtn_msg |-> IF Strip(OrEmpty(form.RtnMsg)) = <<>> THEN Null
                 ELSE Some(Strip(OrEmpty(form.RtnMsg))),
     payment_type |-> IF Strip(OrEmpty(form.PaymentType)) = <<>> THEN Null
                      ELSE Some(Strip(OrEmpty(form.PaymentType))),
     ecpay_trade_no |-> IF Strip(OrEmpty(form.TradeNo)) = <<>> THEN Null
                        ELSE Some(Strip(OrEmpty(form.TradeNo))),
     is_simulated |-> (Strip(OrEmpty(form.SimulatePaid)) = <<"1">>)]

\* C17: after a committed notification the order's status, checkmac_valid,
\* rtn_code, rtn_msg, payment_type, ecpay_trade_no and is_simulated are what
\* the notification's form says, whatever they were before; delivering the
\* same notification again leaves them as they are; and a request that is not
\* a committed notification leaves them as they were.
C17_LastWriteWins ==
    ~Idle
        => /\ (IsReturn /\ resp.body = "1|OK")
                => \A i \in Named(req.form) :
                    /\ GatewayView(orders[i]) = GatewayViewOf(req.form)
                    /\ GatewayView(NotifyReturnResult(req.form, TRUE).orders[i])
                            = GatewayView(orders[i])
                    /\ NotifyReturnResult(req.form, TRUE).resp.body = "1|OK"
           /\ \A i \in DOMAIN before.orders :
                (~IsReturn \/ resp.body # "1|OK" \/ i \notin Named(req.form))
                    => GatewayView(orders[i]) = GatewayView(before.orders[i])

\* a failure notification without message or payment type was committed for an
\* order that an earlier notification had paid, with a message
C17_Witness ==
    /\ IsReturn
    /\ resp.body = "1|OK"
    /\ \E i \in Named(req.form) :
        /\ before.orders[i].status = "paid"
        /\ before.orders[i].rtn_msg # Null
        /\ before.orders[i].is_simulated
        /\ orders[i].status = "failed"
        /\ orders[i].rtn_msg = Null
        /\ ~orders[i].is_simulated

\* C18: a /order_result or /download request adds and removes no order and
\* changes no field of an order other than delivered_at (so not status,
\* checkmac_valid, paid_at or a gateway field); /order_result removes no token
\* row and changes of a stored token row at most its file_path; /download
\* leaves both tables exactly as they were.
C18_ViewsAreNotAuthorities ==
    (IsView \/ IsDownload)
        => /\ DOMAIN orders = DOMAIN before.orders
           /\ \A i \in DOMAIN before.orders :
                [orders[i] EXCEPT !.delivered_at = Null]
                    = [before.orders[i] EXCEPT !.delivered_at = Null]
           /\ \A t \in before.tokens :
                \E u \in tokens : [u EXCEPT !.file_path = t.file_path] = t
           /\ IsDownload => TablesUnchanged

\* a view wrote a token row and delivered_at, and the order's payment fields
\* are as the notification left them at an earlier hour
C18_Witness ==
    /\ IsView
    /\ tokens # before.tokens
    /\ \E i \in DOMAIN orders :
        /\ before.orders[i].delivered_at = Null
        /\ orders[i].delivered_at = Some(now)
        /\ orders[i].paid_at # Null
        /\ orders[i].paid_at[1] < now

\* C19: every token row belongs to an order for which a signature-verified
\* notification with RtnCode = 1 was committed earlier; a result page carries
\* a download link only for such an order; a download succeeds only through a
\* token of such an order, and only while the order is is_paid; an order for
\* which no such notification was committed is never paid, owns no token and
\* is never downloaded, whatever trade number or token is submitted.
C19_OnlySettledOrdersDeliver ==
    /\ settled \subseteq DOMAIN orders
    /\ \A t \in tokens : t.order_id \in settled
    /\ \A i \in DOMAIN orders : orders[i].status = "paid" => i \in settled
    /\ (IsView /\ resp.data # Null)
        => /\ OrdersByTradeNo(Strip(OrEmpty(req.trade_no))) \subseteq settled
           /\ \E t \in tokens : t.token = resp.data[1] /\ t.order_id \in settled
    /\ (IsDownload /\ resp.status = 200)
        => \E t \in tokens : /\ t.token = req.token
                             /\ t.order_id \in settled
                             /\ IsPaid(orders[t.order_id])
                             /\ resp.data = Some(orders[t.order_id].merchant_trade_no)

\* a download succeeded
C19_Witness ==
    /\ IsDownload
    /\ resp.status = 200
    /\ \E t \in tokens : t.token = req.token /\ t.order_id \in settled

\* C20: every token row has expires_at 24 hours after the time it was minted;
\* a row minted by a request has the time of that request; no request changes
\* the token string, order, created_at or expires_at of a stored row (a reuse
\* may change its file_path only); so a download succeeds only less than 24
\* hours after its token was minted, however often the page was viewed.
C20_FixedWindow ==
    /\ \A t \in tokens : t.expires_at = t.created_at + 24
    /\ ~Idle
        => /\ \A t \in before.tokens :
                \E u \in tokens : u = [t EXCEPT !.file_path = u.file_path]
           /\ \A u \in tokens :
                u.token \notin TokenNames(before.tokens)
                    => (IsView /\ u.created_at = now /\ u.expires_at = now + 24)
           /\ Cardinality(TokenNames(tokens)) = Cardinality(tokens)
    /\ (IsDownload /\ resp.status = 200)
        => \E t \in tokens : t.token = req.token /\ now < t.created_at + 24

\* a view at a later hour reused a token, whose window is still the one it
\* was minted with
C20_Witness ==
    /\ IsView
    /\ resp.body = "paid"
    /\ resp.data # Null
    /\ \E t \in tokens :
        /\ t.token = resp.data[1]
        /\ t \in before.tokens
        /\ t.created_at < now
        /\ t.expires_at = t.created_at + 24

====
